---------------------------- MODULE Spec2Model ----------------------------
(***************************************************************************)
(* Upstream feature analyser (GIS Cup 2018): the graph constructor of      *)
(* read_graph.h with its two reductions, the non-recursive articulation    *)
(* point DFS traverse() and the feature emitter of upstream_features.cpp.  *)
(*                                                                         *)
(* C++ vectors are modelled as sequences: element i of a vector is element *)
(* i+1 of the sequence (At).  A std::string is a sequence of one-character *)
(* strings.  An unordered_map is a function whose DOMAIN is its key set.   *)
(***************************************************************************)
EXTENDS Integers, Sequences, FiniteSets, TLC

\* ------------------------------------------------------------------ bounds

\* number of rows, controllers and starting-point lines of one input
MaxRows == 2
MaxControllers == 2
MaxStartingPoints == 1

\* identifiers as they stand in the input (before the terminator is added)
VertexIds == { <<"a">>, <<"b">>, <<"c">> }
\* "a" is both a vertex identifier and an edge identifier
EdgeIds == { <<"e">>, <<"a">> }
\* "z" names neither a vertex nor an edge
DesignatedIds == VertexIds \cup EdgeIds \cup { <<"z">> }

\* ------------------------------------------------------- program constants

HEAD == 0
TAIL == 1
REAL(v) == v > TAIL

\* ---------------------------------------------------------------- helpers

At(s, i) == s[i + 1]
Min(a, b) == IF a < b THEN a ELSE b
Top(s) == s[Len(s)]
Pop(s) == SubSeq(s, 1, Len(s) - 1)

\* the trailing terminator of an identifier: out.push_back('\n')
Terminate(s) == Append(s, "\n")

VARIABLES
    pc,            \* position of main / read_graph
    graph,         \* graph[v]: sequence of <<neighbour, edge index>>
    name,          \* name[v]
    edgename,      \* edgename[e]
    badedge,       \* badedge[e]: edge deleted by reduction 1
    nodes,         \* number of vertices
    edges,         \* local of read_graph: number of edge identifiers
    controllers,   \* local of read_graph: number of controllers read
    edgenodes,     \* edgenodes[e]: the <<u, v>> segments of e
    idx,           \* vertex identifier -> index
    edgeidx,       \* edge identifier -> index
    edgevtx,       \* exploded edge -> its substitute vertices
    nrows,         \* rows read so far
    nstart,        \* starting-point lines read so far
    upstream,      \* upstream[v]
    dfs,           \* dfs[v] = <<dfs_count, dfs_low>>
    count,         \* local of traverse
    acc,           \* local of traverse: accumulator stack (top is last)
    stk,           \* local of traverse: frame stack (top is last)
    child_reached, \* local of traverse
    find_upstream, \* emitter stack (top is last)
    out,           \* what the emitter wrote, in order
    ub,            \* undefined behaviour was executed
    file,          \* the characters of the open stream
    fpos,          \* number of characters read from the stream
    braces,        \* scanner: brace level
    brackets,      \* scanner: bracket level
    instring,      \* scanner: inside a string
    content,       \* the rows and controllers the document was written from
    top,           \* locals of the top-level scan_field call
    lst,           \* locals of the running scan_list call
    entry,         \* scanner state at the call of a primitive
    called,        \* the primitive that was called
    ret,           \* what it returned
    calls,         \* the handler calls of the running scan_field, in order
    other          \* the graph tables the other strategy built from the file

tabVars == << graph, name, edgename, badedge, nodes, edges, controllers,
              edgenodes, idx, edgeidx, edgevtx >>
inVars == << nrows, nstart >>
travVars == << upstream, dfs, count, acc, stk, child_reached, ub >>
emitVars == << find_upstream, out >>
scanVars == << file, fpos, braces, brackets, instring, content, top, lst,
               entry, called, ret, calls, other >>
vars == << pc, tabVars, inVars, travVars, emitVars, scanVars >>

\* ------------------------------------------------------ graph constructor

\* the tables of read_graph as one value
Tables == [ graph |-> graph, name |-> name, edgename |-> edgename,
            badedge |-> badedge, nodes |-> nodes, edges |-> edges,
            controllers |-> controllers, edgenodes |-> edgenodes,
            idx |-> idx, edgeidx |-> edgeidx, edgevtx |-> edgevtx ]

SetTables(T) ==
    /\ graph' = T.graph
    /\ name' = T.name
    /\ edgename' = T.edgename
    /\ badedge' = T.badedge
    /\ nodes' = T.nodes
    /\ edges' = T.edges
    /\ controllers' = T.controllers
    /\ edgenodes' = T.edgenodes
    /\ idx' = T.idx
    /\ edgeidx' = T.edgeidx
    /\ edgevtx' = T.edgevtx

\* mutant: `nodes = 2' forgotten, nodes keeps its initial value
InitTablesNodesZero ==
    [ graph |-> << <<>>, <<>> >>, name |-> << <<>>, <<>> >>,
      edgename |-> <<>>, badedge |-> <<>>, nodes |-> 0, edges |-> 0,
      controllers |-> 0, edgenodes |-> <<>>, idx |-> <<>>,
      edgeidx |-> <<>>, edgevtx |-> <<>> ]

\* read_graph, lines 64-72: HEAD and TAIL with empty names
InitTables ==
    [ graph |-> << <<>>, <<>> >>, name |-> << <<>>, <<>> >>,
      edgename |-> <<>>, badedge |-> <<>>, nodes |-> 2, edges |-> 0,
      controllers |-> 0, edgenodes |-> <<>>, idx |-> <<>>,
      edgeidx |-> <<>>, edgevtx |-> <<>> ]

\* the unprimed counterpart of SetTables, for the initial state
SetTablesInit ==
    /\ graph = InitTables.graph
    /\ name = InitTables.name
    /\ edgename = InitTables.edgename
    /\ badedge = InitTables.badedge
    /\ nodes = InitTables.nodes
    /\ edges = InitTables.edges
    /\ controllers = InitTables.controllers
    /\ edgenodes = InitTables.edgenodes
    /\ idx = InitTables.idx
    /\ edgeidx = InitTables.edgeidx
    /\ edgevtx = InitTables.edgevtx

\* graph[u].emplace_back(v, e)
AddEntry(T, u, v, e) ==
    [T EXCEPT !.graph[u + 1] = Append(@, <<v, e>>)]

\* mutant: the entry is appended to one list only
AddOneWay(T, u, v, e) == AddEntry(T, u, v, e)

\* graph[u].emplace_back(v, e); graph[v].emplace_back(u, e)
AddMirrored(T, u, v, e) == AddEntry(AddEntry(T, u, v, e), v, u, e)

\* resolve or allocate the vertex of an identifier
ResolveVertex(T, id) ==
    IF id \in DOMAIN T.idx
      THEN T
      ELSE [T EXCEPT !.name = Append(@, id),
                     !.graph = Append(@, <<>>),
                     !.idx = (id :> T.nodes) @@ @,
                     !.nodes = @ + 1]

\* resolve or allocate the edge record of an identifier
ResolveEdge(T, id) ==
    IF id \in DOMAIN T.edgeidx
      THEN T
      ELSE [T EXCEPT !.edgenodes = Append(@, <<>>),
                     !.edgename = Append(@, id),
                     !.badedge = Append(@, FALSE),
                     !.edgeidx = (id :> T.edges) @@ @,
                     !.edges = @ + 1]

\* the body of the rows handler once the three identifiers are extracted
RowInsert(T, edge, source, target) ==
    LET T1 == ResolveVertex(T, source)
        sourcev == T1.idx[source]
        T2 == ResolveVertex(T1, target)
        targetv == T2.idx[target]
        T3 == ResolveEdge(T2, edge)
        edgev == T3.edgeidx[edge]
        T4 == [T3 EXCEPT !.edgenodes[edgev + 1] =
                             Append(@, <<sourcev, targetv>>)]
    IN  AddMirrored(T4, sourcev, targetv, edgev)

\* the dummy edge appended after the rows
AddDummyEdge(T) ==
    [T EXCEPT !.edgename = Append(@, <<>>), !.badedge = Append(@, FALSE)]

\* reduction 2 for a vertex: wire it to the sentinel through edge `edges'
WireSentinel(T, sentinel, v) == AddMirrored(T, sentinel, v, T.edges)

\* mutant: the substitute is not joined to the second endpoint of its segment
ExplodeSegmentFirstEnd(T, sentinel, e, id, p) ==
    LET source == T.nodes
        T1 == [T EXCEPT !.name = Append(@, id),
                        !.graph = Append(@, <<>>),
                        !.nodes = @ + 1,
                        !.edgevtx[e] = Append(@, source)]
        T2 == AddEntry(AddEntry(T1, sentinel, source, T.edges),
                       source, sentinel, T.edges)
    IN  AddMirrored(T2, source, p[1], T.edges)

\* reduction 1 for one segment p of edge e: a new vertex named id, wired to
\* the sentinel and to the two endpoints of the segment
ExplodeSegment(T, sentinel, e, id, p) ==
    LET source == T.nodes
        T1 == [T EXCEPT !.name = Append(@, id),
                        !.graph = Append(@, <<>>),
                        !.nodes = @ + 1,
                        !.edgevtx[e] = Append(@, source)]
        T2 == AddEntry(AddEntry(T1, sentinel, source, T.edges),
                       source, sentinel, T.edges)
        T3 == AddMirrored(T2, source, p[1], T.edges)
    IN  AddMirrored(T3, source, p[2], T.edges)

RECURSIVE ExplodeFrom(_, _, _, _, _)
\* the loop over edgenodes[e], from segment k on
ExplodeFrom(T, sentinel, e, id, k) ==
    IF k > Len(At(T.edgenodes, e))
      THEN T
      ELSE ExplodeFrom(ExplodeSegment(T, sentinel, e, id,
                                      At(T.edgenodes, e)[k]),
                       sentinel, e, id, k + 1)

RECURSIVE RewireFrom(_, _, _, _)
\* the loop over edgevtx[e], from substitute k on
RewireFrom(T, sentinel, e, k) ==
    IF k > Len(T.edgevtx[e])
      THEN T
      ELSE RewireFrom(WireSentinel(T, sentinel, T.edgevtx[e][k]),
                      sentinel, e, k + 1)

\* mutant: the edge is exploded again at every designation
DesignateEdgeAgain(T, sentinel, id) ==
    LET e == T.edgeidx[id]
    IN  ExplodeFrom([T EXCEPT !.badedge[e + 1] = TRUE,
                              !.edgevtx = (e :> <<>>) @@ @],
                    sentinel, e, id, 1)

\* the edge branch of a designation
DesignateEdge(T, sentinel, id) ==
    LET e == T.edgeidx[id]
    IN  IF ~At(T.badedge, e)
          THEN ExplodeFrom([T EXCEPT !.badedge[e + 1] = TRUE,
                                     !.edgevtx = (e :> <<>>) @@ @],
                           sentinel, e, id, 1)
          ELSE RewireFrom(T, sentinel, e, 1)

\* mutant: an identifier that names no vertex gets a vertex of its own
DesignateCreating(T, sentinel, id) ==
    LET T0 == IF id \in DOMAIN T.idx
                THEN T
                ELSE [T EXCEPT !.name = Append(@, id),
                               !.graph = Append(@, <<>>),
                               !.idx = (id :> T.nodes) @@ @,
                               !.nodes = @ + 1]
        T1 == WireSentinel(T0, sentinel, T0.idx[id])
    IN  IF id \in DOMAIN T1.edgeidx
          THEN DesignateEdge(T1, sentinel, id)
          ELSE T1

\* an identifier designated as controller (sentinel TAIL) or as starting
\* point (sentinel HEAD): the vertex lookup, then the edge lookup
Designate(T, sentinel, id) ==
    LET T1 == IF id \in DOMAIN T.idx
                THEN WireSentinel(T, sentinel, T.idx[id])
                ELSE T
    IN  IF id \in DOMAIN T1.edgeidx
          THEN DesignateEdge(T1, sentinel, id)
          ELSE T1

\* the controllers handler: ++controllers, then the designation
ControllerInsert(T, ctrl) ==
    Designate([T EXCEPT !.controllers = @ + 1], TAIL, ctrl)

\* one line of the starting-points file: the terminator, the designation
StartingPointInsert(T, line) == Designate(T, HEAD, Terminate(line))


\* ------------------------------------------------------------- traverse()

\* a recursion stack frame of the DFS
Frame(v, i, best, reached, started) ==
    [ v |-> v, i |-> i, best |-> best, reached |-> reached,
      started |-> started ]

RECURSIVE PopComponentNotChild(_, _, _, _)
\* mutant: the child u itself is popped without being marked
PopComponentNotChild(a, up, u, reached) ==
    IF a = <<>>
      THEN [ acc |-> a, upstream |-> up, ub |-> TRUE ]
      ELSE LET t == Top(a)
           IN  IF t # u
                 THEN PopComponentNotChild(Pop(a),
                        [up EXCEPT ![t + 1] = @ \/ reached], u, reached)
                 ELSE [ acc |-> Pop(a), upstream |-> up, ub |-> FALSE ]

RECURSIVE PopComponent(_, _, _, _)
\* the articulation branch: pop the accumulator down to and including u,
\* marking what is popped with the child's reachability.  acc.top() of an
\* empty stack is undefined behaviour.
PopComponent(a, up, u, reached) ==
    IF a = <<>>
      THEN [ acc |-> a, upstream |-> up, ub |-> TRUE ]
      ELSE LET t == Top(a)
               up1 == [up EXCEPT ![t + 1] = @ \/ reached]
           IN  IF t # u
                 THEN PopComponent(Pop(a), up1, u, reached)
                 ELSE [ acc |-> Pop(a), upstream |-> up1, ub |-> FALSE ]

RECURSIVE SkipEdgesFoldDeleted(_, _)
\* mutant: a skipped entry is folded whether its edge is deleted or not
SkipEdgesFoldDeleted(fm, d) ==
    IF fm.i < Len(At(graph, fm.v))
      THEN LET p == At(At(graph, fm.v), fm.i)
           IN  IF At(d, p[1])[1] > 0 \/ At(badedge, p[2])
                 THEN SkipEdgesFoldDeleted(
                        [fm EXCEPT !.reached = @ \/ (p[1] = TAIL),
                                   !.best = Min(@, At(d, p[1])[2]),
                                   !.i = @ + 1],
                        d)
                 ELSE fm
      ELSE fm

RECURSIVE SkipEdges(_, _)
\* the inner while loop: skip the entries whose neighbour is already
\* discovered or whose edge is deleted, folding what a live entry gives
SkipEdges(fm, d) ==
    IF fm.i < Len(At(graph, fm.v))
      THEN LET p == At(At(graph, fm.v), fm.i)
           IN  IF At(d, p[1])[1] > 0 \/ At(badedge, p[2])
                 THEN SkipEdges(
                        IF ~At(badedge, p[2])
                          THEN [fm EXCEPT !.reached = @ \/ (p[1] = TAIL),
                                          !.best = Min(@, At(d, p[1])[2]),
                                          !.i = @ + 1]
                          ELSE [fm EXCEPT !.i = @ + 1],
                        d)
                 ELSE fm
      ELSE fm

\* mutant: the articulation test is left out, a returned child is only folded
AfterReturnNoArticulation(fm) ==
    IF fm.started
      THEN LET u == At(At(graph, fm.v), fm.i)[1]
           IN  [ fm |-> [fm EXCEPT !.best = Min(@, At(dfs, u)[2]),
                                   !.i = @ + 1],
                 dfs |-> dfs, acc |-> acc, upstream |-> upstream,
                 ub |-> FALSE ]
      ELSE [ fm |-> fm,
             dfs |-> [dfs EXCEPT ![fm.v + 1] = <<fm.best, fm.best>>],
             acc |-> Append(acc, fm.v), upstream |-> upstream,
             ub |-> FALSE ]

\* the frame after the `if (fm.started) ... else ...' statement, with the
\* accumulator, the marks and the dfs table it leaves
AfterReturn(fm) ==
    IF fm.started
      THEN LET u == At(At(graph, fm.v), fm.i)[1]
           IN  IF At(dfs, u)[2] >= At(dfs, fm.v)[1]
                 THEN LET r == PopComponent(acc, upstream, u, child_reached)
                      IN  [ fm |-> [fm EXCEPT !.i = @ + 1], dfs |-> dfs,
                            acc |-> r.acc, upstream |-> r.upstream,
                            ub |-> r.ub ]
                 ELSE [ fm |-> [fm EXCEPT !.best = Min(@, At(dfs, u)[2]),
                                          !.i = @ + 1],
                        dfs |-> dfs, acc |-> acc, upstream |-> upstream,
                        ub |-> FALSE ]
      ELSE [ fm |-> fm,
             dfs |-> [dfs EXCEPT ![fm.v + 1] = <<fm.best, fm.best>>],
             acc |-> Append(acc, fm.v), upstream |-> upstream,
             ub |-> FALSE ]

\* mutant: count is not incremented when the frame of HEAD is created
BeginTraverseSameCount ==
    /\ pc = "startingpoints"
    /\ pc' = "traverse"
    /\ upstream' = [v \in 1..nodes |-> FALSE]
    /\ dfs' = [v \in 1..nodes |-> <<0, 0>>]
    /\ count' = 1
    /\ acc' = <<>>
    /\ stk' = << Frame(0, 0, 1, FALSE, FALSE) >>
    /\ child_reached' = FALSE
    /\ UNCHANGED << tabVars, inVars, emitVars, ub >>
    /\ UNCHANGED scanVars

\* main, lines 90-92, and the head of traverse(), lines 138-146
BeginTraverse ==
    /\ pc = "startingpoints"
    /\ pc' = "traverse"
    /\ upstream' = [v \in 1..nodes |-> FALSE]
    /\ dfs' = [v \in 1..nodes |-> <<0, 0>>]
    /\ count' = 2
    /\ acc' = <<>>
    /\ stk' = << Frame(0, 0, 1, FALSE, FALSE) >>
    /\ child_reached' = FALSE
    /\ UNCHANGED << tabVars, inVars, emitVars, ub >>
    /\ UNCHANGED scanVars

\* mutant: the articulation branch marks the component but pops nothing
TraverseStepKeepAcc ==
    /\ pc = "traverse"
    /\ stk # <<>>
    /\ \E r \in { AfterReturn([Top(stk) EXCEPT
                                   !.reached = @ \/ child_reached]) } :
       \E fm \in { SkipEdges(r.fm, r.dfs) } :
           IF r.ub
             THEN /\ pc' = "undefined"
                  /\ ub' = TRUE
                  /\ UNCHANGED << upstream, dfs, count, acc, stk,
                                  child_reached >>
             ELSE /\ pc' = pc
                  /\ ub' = ub
                  /\ acc' = IF Len(r.acc) > Len(acc) THEN r.acc ELSE acc
                  /\ upstream' = r.upstream
                  /\ IF fm.i = Len(At(graph, fm.v))
                       THEN /\ dfs' = [r.dfs EXCEPT ![fm.v + 1][2] = fm.best]
                            /\ child_reached' = fm.reached
                            /\ stk' = Pop(stk)
                            /\ count' = count
                       ELSE LET n == At(At(graph, fm.v), fm.i)[1]
                            IN  /\ dfs' = r.dfs
                                /\ stk' = Pop(stk) \o
                                     << [fm EXCEPT !.reached = @ \/ (n = TAIL),
                                                   !.started = TRUE],
                                        Frame(n, 0, count, FALSE, FALSE) >>
                                /\ count' = count + 1
                                /\ child_reached' = FALSE
    /\ UNCHANGED << tabVars, inVars, emitVars >>
    /\ UNCHANGED scanVars

\* one iteration of the while loop of traverse()
TraverseStep ==
    /\ pc = "traverse"
    /\ stk # <<>>
    /\ \E r \in { AfterReturn([Top(stk) EXCEPT
                                   !.reached = @ \/ child_reached]) } :
       \E fm \in { SkipEdges(r.fm, r.dfs) } :
           IF r.ub
             THEN /\ pc' = "undefined"
                  /\ ub' = TRUE
                  /\ UNCHANGED << upstream, dfs, count, acc, stk,
                                  child_reached >>
             ELSE /\ pc' = pc
                  /\ ub' = ub
                  /\ acc' = r.acc
                  /\ upstream' = r.upstream
                  /\ IF fm.i = Len(At(graph, fm.v))
                       THEN /\ dfs' = [r.dfs EXCEPT ![fm.v + 1][2] = fm.best]
                            /\ child_reached' = fm.reached
                            /\ stk' = Pop(stk)
                            /\ count' = count
                       ELSE LET n == At(At(graph, fm.v), fm.i)[1]
                            IN  /\ dfs' = r.dfs
                                /\ stk' = Pop(stk) \o
                                     << [fm EXCEPT !.reached = @ \/ (n = TAIL),
                                                   !.started = TRUE],
                                        Frame(n, 0, count, FALSE, FALSE) >>
                                /\ count' = count + 1
                                /\ child_reached' = FALSE
    /\ UNCHANGED << tabVars, inVars, emitVars >>
    /\ UNCHANGED scanVars

\* mutant: every vertex is marked, accumulated or not
TraverseFinishMarkAll ==
    /\ pc = "traverse"
    /\ stk = <<>>
    /\ pc' = "emit"
    /\ upstream' = [v \in 1..nodes |-> TRUE]
    /\ acc' = <<>>
    /\ UNCHANGED << tabVars, inVars, emitVars, dfs, count, stk,
                    child_reached, ub >>
    /\ UNCHANGED scanVars

\* the tail of traverse(), lines 199-204: what is left on the accumulator
\* is marked upstream
TraverseFinish ==
    /\ pc = "traverse"
    /\ stk = <<>>
    /\ pc' = "emit"
    /\ upstream' = [v \in 1..nodes |->
                      upstream[v] \/ (\E k \in 1..Len(acc) : acc[k] = v - 1)]
    /\ acc' = <<>>
    /\ UNCHANGED << tabVars, inVars, emitVars, dfs, count, stk,
                    child_reached, ub >>
    /\ UNCHANGED scanVars

\* ---------------------------------------------------------------- emitter

\* a write to the output file: name[v] or edgename[e]
WroteName(v) == [ kind |-> "name", of |-> v ]
WroteEdge(e) == [ kind |-> "edgename", of |-> e ]

RECURSIVE EmitEntriesNamesOnly(_, _, _, _, _)
\* mutant: the edge name of an entry is not written
EmitEntriesNamesOnly(v, k, d, s, o) ==
    IF k > Len(At(graph, v))
      THEN [ dfs |-> d, find_upstream |-> s, out |-> o ]
      ELSE LET p == At(graph, v)[k]
               u == p[1]
           IN  IF ~At(upstream, u)
                 THEN EmitEntriesNamesOnly(v, k + 1, d, s, o)
                 ELSE IF At(d, u)[1] # 0
                        THEN EmitEntriesNamesOnly(v, k + 1,
                               [d EXCEPT ![u + 1][1] = 0],
                               Append(s, u),
                               Append(o, WroteName(u)))
                        ELSE EmitEntriesNamesOnly(v, k + 1, d, s, o)

RECURSIVE EmitEntries(_, _, _, _, _)
\* the for loop over graph[v], from entry k on
EmitEntries(v, k, d, s, o) ==
    IF k > Len(At(graph, v))
      THEN [ dfs |-> d, find_upstream |-> s, out |-> o ]
      ELSE LET p == At(graph, v)[k]
               u == p[1]
           IN  IF ~At(upstream, u)
                 THEN EmitEntries(v, k + 1, d, s, o)
                 ELSE LET o1 == IF u > v THEN Append(o, WroteEdge(p[2]))
                                         ELSE o
                      IN  IF At(d, u)[1] # 0
                            THEN EmitEntries(v, k + 1,
                                   [d EXCEPT ![u + 1][1] = 0],
                                   Append(s, u),
                                   Append(o1, WroteName(u)))
                            ELSE EmitEntries(v, k + 1, d, s, o1)

\* mutant: the emitter starts at TAIL
BeginEmitAtTail ==
    /\ pc = "emit"
    /\ pc' = "emitting"
    /\ find_upstream' = << 1 >>
    /\ dfs' = [dfs EXCEPT ![2][1] = 0]
    /\ UNCHANGED << tabVars, inVars, upstream, count, acc, stk,
                    child_reached, ub, out >>
    /\ UNCHANGED scanVars

\* main, lines 95-98
BeginEmit ==
    /\ pc = "emit"
    /\ pc' = "emitting"
    /\ find_upstream' = << 0 >>
    /\ dfs' = [dfs EXCEPT ![1][1] = 0]
    /\ UNCHANGED << tabVars, inVars, upstream, count, acc, stk,
                    child_reached, ub, out >>
    /\ UNCHANGED scanVars

\* one iteration of the while loop of the emitter
EmitStep ==
    /\ pc = "emitting"
    /\ find_upstream # <<>>
    /\ LET v == Top(find_upstream)
           r == EmitEntries(v, 1, dfs, Pop(find_upstream),
                            Append(out, WroteName(v)))
       IN  /\ dfs' = r.dfs
           /\ find_upstream' = r.find_upstream
           /\ out' = r.out
    /\ pc' = pc
    /\ UNCHANGED << tabVars, inVars, upstream, count, acc, stk,
                    child_reached, ub >>
    /\ UNCHANGED scanVars

\* fout.close(); return 0
EndEmit ==
    /\ pc = "emitting"
    /\ find_upstream = <<>>
    /\ pc' = "done"
    /\ UNCHANGED << tabVars, inVars, travVars, emitVars >>
    /\ UNCHANGED scanVars

\* the stream is not modelled: read_graph receives the extracted identifiers
ScanIdle ==
    /\ file = <<>>
    /\ fpos = 0
    /\ braces = 0
    /\ brackets = 0
    /\ instring = FALSE
    /\ content = <<>>
    /\ top = <<>>
    /\ lst = <<>>
    /\ entry = <<>>
    /\ called = ""
    /\ ret = FALSE
    /\ calls = <<>>
    /\ other = <<>>

\* --------------------------------------------------- read_graph as actions

\* one element of the "rows" list
ReadRow(edge, source, target) ==
    /\ pc = "rows"
    /\ nrows < MaxRows
    /\ SetTables(RowInsert(Tables, Terminate(edge), Terminate(source),
                           Terminate(target)))
    /\ nrows' = nrows + 1
    /\ UNCHANGED << pc, nstart, travVars, emitVars >>
    /\ UNCHANGED scanVars

\* the end of the "rows" list: the dummy edge
EndRows ==
    /\ pc = "rows"
    /\ pc' = "controllers"
    /\ SetTables(AddDummyEdge(Tables))
    /\ UNCHANGED << inVars, travVars, emitVars >>
    /\ UNCHANGED scanVars

\* one element of the "controllers" list
ReadController(ctrl) ==
    /\ pc = "controllers"
    /\ controllers < MaxControllers
    /\ SetTables(ControllerInsert(Tables, Terminate(ctrl)))
    /\ UNCHANGED << pc, inVars, travVars, emitVars >>
    /\ UNCHANGED scanVars

\* the end of the "controllers" list; fclose(file)
EndControllers ==
    /\ pc = "controllers"
    /\ pc' = "startingpoints"
    /\ UNCHANGED << tabVars, inVars, travVars, emitVars >>
    /\ UNCHANGED scanVars

\* one line of the starting-points file
ReadStartingPoint(line) ==
    /\ pc = "startingpoints"
    /\ nstart < MaxStartingPoints
    /\ SetTables(StartingPointInsert(Tables, line))
    /\ nstart' = nstart + 1
    /\ UNCHANGED << pc, nrows, travVars, emitVars >>
    /\ UNCHANGED scanVars

\* ---------------------------------------------------------- specification

Init ==
    /\ pc = "rows"
    /\ SetTablesInit
    /\ nrows = 0
    /\ nstart = 0
    /\ upstream = <<>>
    /\ dfs = <<>>
    /\ count = 0
    /\ acc = <<>>
    /\ stk = <<>>
    /\ child_reached = FALSE
    /\ ub = FALSE
    /\ find_upstream = <<>>
    /\ out = <<>>
    /\ ScanIdle

Next ==
    \/ \E edge \in EdgeIds, source \in VertexIds, target \in VertexIds :
          ReadRow(edge, source, target)
    \/ EndRows
    \/ \E ctrl \in DesignatedIds : ReadController(ctrl)
    \/ EndControllers
    \/ \E line \in DesignatedIds : ReadStartingPoint(line)
    \/ BeginTraverse
    \/ TraverseStep
    \/ TraverseFinish
    \/ BeginEmit
    \/ EmitStep
    \/ EndEmit

Spec == Init /\ [][Next]_vars

\* ---------------------------------------------------------------- scanner

\* uint_fast32_t arithmetic.  The modulus stands for 2^N of the build
\* (N >= 32), which exceeds the integers of the checker; no depth of the
\* model comes near either value.
UintfModulus == 2^30
Uintf(x) == x % UintfModulus

\* what fgetc gives at the end of the stream, as a char
EOFC == "EOF"

Chars(s) == [ i \in 1..Len(s) |-> SubSeq(s, i, i) ]

\* the scanner as one value
Scanner == [ pos |-> fpos, braces |-> braces, brackets |-> brackets,
             instring |-> instring, c |-> "" ]

SetScanner(S) ==
    /\ fpos' = S.pos
    /\ braces' = S.braces
    /\ brackets' = S.brackets
    /\ instring' = S.instring

AtEOF(S) == S.pos >= Len(file)

\* mutant: braces and brackets are counted inside strings as well
ReadCInString(S) ==
    LET c == IF AtEOF(S) THEN EOFC ELSE file[S.pos + 1]
        S1 == [S EXCEPT !.pos = IF AtEOF(S) THEN @ ELSE @ + 1, !.c = c]
    IN  IF c = "\""
          THEN [S1 EXCEPT !.instring = ~@]
          ELSE CASE c = "{" -> [S1 EXCEPT !.braces = Uintf(@ + 1)]
                 [] c = "}" -> [S1 EXCEPT !.braces = Uintf(@ - 1)]
                 [] c = "[" -> [S1 EXCEPT !.brackets = Uintf(@ + 1)]
                 [] c = "]" -> [S1 EXCEPT !.brackets = Uintf(@ - 1)]
                 [] OTHER -> S1

\* readc: the next character and the bookkeeping it causes
ReadC(S) ==
    LET c == IF AtEOF(S) THEN EOFC ELSE file[S.pos + 1]
        S1 == [S EXCEPT !.pos = IF AtEOF(S) THEN @ ELSE @ + 1, !.c = c]
    IN  IF c = "\""
          THEN [S1 EXCEPT !.instring = ~@]
          ELSE IF S.instring
                 THEN S1
                 ELSE CASE c = "{" -> [S1 EXCEPT !.braces = Uintf(@ + 1)]
                        [] c = "}" -> [S1 EXCEPT !.braces = Uintf(@ - 1)]
                        [] c = "[" -> [S1 EXCEPT !.brackets = Uintf(@ + 1)]
                        [] c = "]" -> [S1 EXCEPT !.brackets = Uintf(@ - 1)]
                        [] OTHER -> S1

\* At the end of the stream readc changes neither counter nor the string
\* flag, so a loop whose condition holds there never ends: hang.

RECURSIVE SkipToString(_)
\* extract_string, first loop: while (!instring) readc(file)
SkipToString(S) ==
    IF S.instring
      THEN [ S |-> S, hang |-> FALSE ]
      ELSE IF AtEOF(S)
             THEN [ S |-> S, hang |-> TRUE ]
             ELSE SkipToString(ReadC(S))

RECURSIVE CopyString(_, _)
\* extract_string, second loop: for (c = readc; instring; c = readc)
CopyString(S, o) ==
    LET S1 == ReadC(S)
    IN  IF ~S1.instring
          THEN [ S |-> S1, out |-> o, hang |-> FALSE ]
          ELSE IF AtEOF(S)
                 THEN [ S |-> S1, out |-> o, hang |-> TRUE ]
                 ELSE CopyString(S1, Append(o, S1.c))

\* mutant: the string is handed back without its terminator
ExtractStringUnterminated(S) ==
    LET a == SkipToString(S)
    IN  IF a.hang
          THEN [ S |-> a.S, out |-> <<>>, hang |-> TRUE ]
          ELSE LET b == CopyString(a.S, <<>>)
               IN  [ S |-> b.S, out |-> b.out, hang |-> b.hang ]

\* extract_string
ExtractString(S) ==
    LET a == SkipToString(S)
    IN  IF a.hang
          THEN [ S |-> a.S, out |-> <<>>, hang |-> TRUE ]
          ELSE LET b == CopyString(a.S, <<>>)
               IN  [ S |-> b.S, out |-> Terminate(b.out), hang |-> b.hang ]

\* the levels a scan stores at its call
Levels(S) == [ braces |-> S.braces, brackets |-> S.brackets ]

RECURSIVE EnterField(_, _)
\* scan_field, first loop: read into the next field
EnterField(S, L) ==
    IF L.braces = S.braces
      THEN IF AtEOF(S)
             THEN [ S |-> S, ret |-> FALSE, hang |-> TRUE ]
             ELSE LET S1 == ReadC(S)
                  IN  IF L.brackets > S1.brackets
                        THEN [ S |-> S1, ret |-> FALSE, hang |-> FALSE ]
                        ELSE EnterField(S1, L)
      ELSE [ S |-> S, ret |-> TRUE, hang |-> FALSE ]

\* scan_field, the comparison of the character c with key i
KeyStep(keys, kpos, c, i) ==
    IF kpos[i] < Len(keys[i]) /\ c = keys[i][kpos[i] + 1]
      THEN [ kpos |-> [kpos EXCEPT ![i] = @ + 1],
             full |-> kpos[i] + 1 = Len(keys[i]) ]
      ELSE [ kpos |-> [kpos EXCEPT ![i] = 0], full |-> FALSE ]

RECURSIVE ScanToKey(_, _, _, _, _)
\* scan_field, second loop, up to the next call of the handler: the for loop
\* goes on with key i and the character S.c, then the while loop goes on.
\* match is the key whose handler is called, or 0 when the loop has ended.
ScanToKey(S, L, keys, kpos, i) ==
    IF i <= Len(keys)
      THEN LET k == KeyStep(keys, kpos, S.c, i)
           IN  IF k.full
                 THEN [ S |-> S, kpos |-> k.kpos, match |-> i,
                        hang |-> FALSE ]
                 ELSE ScanToKey(S, L, keys, k.kpos, i + 1)
      ELSE IF L.braces < S.braces
             THEN IF AtEOF(S)
                    THEN [ S |-> S, kpos |-> kpos, match |-> 0,
                           hang |-> TRUE ]
                    ELSE LET S1 == ReadC(S)
                         IN  IF L.braces + 1 < S1.braces
                                  \/ L.brackets < S1.brackets
                               THEN ScanToKey(S1, L, keys, kpos,
                                              Len(keys) + 1)
                               ELSE ScanToKey(S1, L, keys, kpos, 1)
             ELSE [ S |-> S, kpos |-> kpos, match |-> 0, hang |-> FALSE ]

RECURSIVE ScanStrings(_, _, _, _, _, _)
\* scan_field, second loop, with a handler that extracts the string after
\* key i into vals[i]
ScanStrings(S, L, keys, kpos, i, vals) ==
    LET r == ScanToKey(S, L, keys, kpos, i)
    IN  IF r.hang \/ r.match = 0
          THEN [ S |-> r.S, ret |-> TRUE, vals |-> vals, hang |-> r.hang ]
          ELSE LET x == ExtractString(r.S)
                   v == [vals EXCEPT ![r.match] = x.out]
               IN  IF x.hang
                     THEN [ S |-> x.S, ret |-> TRUE, vals |-> v,
                            hang |-> TRUE ]
                     ELSE ScanStrings([x.S EXCEPT !.c = r.S.c], L, keys,
                                      r.kpos, r.match + 1, v)

\* mutant: a scan that found no string for one of the keys reports failure
ScanFieldAllKeys(S, keys) ==
    LET L == Levels(S)
        none == [ i \in 1..Len(keys) |-> <<>> ]
        a == EnterField(S, L)
        b == ScanStrings(a.S, L, keys, [ i \in 1..Len(keys) |-> 0 ],
                         Len(keys) + 1, none)
    IN  IF a.hang \/ ~a.ret
          THEN [ S |-> a.S, ret |-> a.ret, vals |-> none, hang |-> a.hang ]
          ELSE [b EXCEPT !.ret = \A i \in 1..Len(keys) : b.vals[i] # <<>>]

\* scan_field with a handler that extracts the string after each key; a
\* std::string that no handler assigns stays empty
ScanField(S, keys) ==
    LET L == Levels(S)
        none == [ i \in 1..Len(keys) |-> <<>> ]
        a == EnterField(S, L)
    IN  IF a.hang \/ ~a.ret
          THEN [ S |-> a.S, ret |-> a.ret, vals |-> none, hang |-> a.hang ]
          ELSE ScanStrings(a.S, L, keys, [ i \in 1..Len(keys) |-> 0 ],
                           Len(keys) + 1, none)

RECURSIVE EnterList(_, _)
\* scan_list, first loop: read into the next list
EnterList(S, L) ==
    IF L.brackets = S.brackets
      THEN IF AtEOF(S)
             THEN [ S |-> S, ret |-> FALSE, hang |-> TRUE ]
             ELSE LET S1 == ReadC(S)
                  IN  IF L.braces > S1.braces
                        THEN [ S |-> S1, ret |-> FALSE, hang |-> FALSE ]
                        ELSE EnterList(S1, L)
      ELSE [ S |-> S, ret |-> TRUE, hang |-> FALSE ]

RECURSIVE BeginFieldLoop(_, _)
\* begin_field (order-dependent strategy)
BeginFieldLoop(S, L) ==
    IF L.braces = S.braces /\ L.brackets <= S.brackets
      THEN IF AtEOF(S)
             THEN [ S |-> S, ret |-> FALSE, hang |-> TRUE ]
             ELSE BeginFieldLoop(ReadC(S), L)
      ELSE [ S |-> S, ret |-> L.brackets <= S.brackets, hang |-> FALSE ]

BeginField(S) == BeginFieldLoop(S, Levels(S))

RECURSIVE ReadToKeyLoop(_, _, _, _)
\* read_to_key: the loop, with its locals level and match
ReadToKeyLoop(S, key, level, match) ==
    IF match < Len(key) /\ level <= S.braces
      THEN IF AtEOF(S)
             THEN [ S |-> S, ret |-> FALSE, hang |-> TRUE ]
             ELSE LET S1 == ReadC(S)
                  IN  ReadToKeyLoop(S1, key, level,
                                    IF S1.c = key[match + 1]
                                      THEN match + 1 ELSE 0)
      ELSE [ S |-> S, ret |-> match = Len(key), hang |-> FALSE ]

\* read_to_key
ReadToKey(S, key) == ReadToKeyLoop(S, key, S.braces, 0)

RECURSIVE EndFieldLoop(_, _)
\* end_field: read until the field is left
EndFieldLoop(S, level) ==
    IF level <= S.braces
      THEN IF AtEOF(S)
             THEN [ S |-> S, ret |-> FALSE, hang |-> TRUE ]
             ELSE EndFieldLoop(ReadC(S), level)
      ELSE [ S |-> S, ret |-> TRUE, hang |-> FALSE ]

EndField(S) == EndFieldLoop(S, S.braces)

RECURSIVE BeginListLoop(_, _)
\* begin_list: read until a list is entered or the field level is left
BeginListLoop(S, L) ==
    IF L.brackets = S.brackets /\ L.braces <= S.braces
      THEN IF AtEOF(S)
             THEN [ S |-> S, ret |-> FALSE, hang |-> TRUE ]
             ELSE BeginListLoop(ReadC(S), L)
      ELSE [ S |-> S, ret |-> L.braces <= S.braces, hang |-> FALSE ]

BeginList(S) == BeginListLoop(S, Levels(S))

RECURSIVE EndListLoop(_, _)
\* end_list: read until the list is left
EndListLoop(S, level) ==
    IF level <= S.brackets
      THEN IF AtEOF(S)
             THEN [ S |-> S, ret |-> FALSE, hang |-> TRUE ]
             ELSE EndListLoop(ReadC(S), level)
      ELSE [ S |-> S, ret |-> TRUE, hang |-> FALSE ]

EndList(S) == EndListLoop(S, S.brackets)

\* a primitive called after the call that gave r, unless that one never
\* returned
Then(r, Op(_)) == IF r.hang THEN r ELSE Op(r.S)

RECURSIVE ReadStringsReversed(_, _, _, _)
\* mutant: the strings are stored in the reverse order of the keys
ReadStringsReversed(S, keys, k, vals) ==
    IF k > Len(keys)
      THEN [ S |-> S, vals |-> vals, hang |-> FALSE ]
      ELSE LET a == ReadToKey(S, keys[k])
               x == ExtractString(a.S)
           IN  IF a.hang
                 THEN [ S |-> a.S, vals |-> vals, hang |-> TRUE ]
                 ELSE IF x.hang
                        THEN [ S |-> x.S, vals |-> vals, hang |-> TRUE ]
                        ELSE ReadStringsReversed(x.S, keys, k + 1,
                               [vals EXCEPT ![Len(keys) + 1 - k] = x.out])

RECURSIVE ReadStrings(_, _, _, _)
\* read_to_key and extract_string for the keys k.. in turn; vals[k] is the
\* string extracted after key k
ReadStrings(S, keys, k, vals) ==
    IF k > Len(keys)
      THEN [ S |-> S, vals |-> vals, hang |-> FALSE ]
      ELSE LET a == ReadToKey(S, keys[k])
               x == ExtractString(a.S)
           IN  IF a.hang
                 THEN [ S |-> a.S, vals |-> vals, hang |-> TRUE ]
                 ELSE IF x.hang
                        THEN [ S |-> x.S, vals |-> vals, hang |-> TRUE ]
                        ELSE ReadStrings(x.S, keys, k + 1,
                                         [vals EXCEPT ![k] = x.out])

\* the body of a list element in the order-dependent strategy: the strings
\* of the keys, then end_field
ReadElement(S, keys) ==
    LET a == ReadStrings(S, keys, 1, [ i \in 1..Len(keys) |-> <<>> ])
        b == EndField(a.S)
    IN  IF a.hang THEN a ELSE [ S |-> b.S, vals |-> a.vals, hang |-> b.hang ]

\* the keys of read_graph
TopKeys == << Chars("\"rows\""), Chars("\"controllers\"") >>
RowKeys == << Chars("\"viaGlobalId\""), Chars("\"fromGlobalId\""),
              Chars("\"toGlobalId\"") >>
ControllerKeys == << Chars("\"globalId\"") >>

\* the part of the state that neither parsing nor scanning has touched yet
RunIdle ==
    /\ nrows = 0
    /\ nstart = 0
    /\ upstream = <<>>
    /\ dfs = <<>>
    /\ count = 0
    /\ acc = <<>>
    /\ stk = <<>>
    /\ child_reached = FALSE
    /\ ub = FALSE
    /\ find_upstream = <<>>
    /\ out = <<>>

\* ------------------------------------------- the scan primitives on a stream

\* length of the streams the primitives are run on
MaxScanLen == 4

ScanAlphabet == { "{", "}", "[", "]", "\"", "\\", "g" }

ScanFiles == UNION { [ 1..n -> ScanAlphabet ] : n \in 0..MaxScanLen }

InitScan ==
    /\ pc = "reading"
    /\ SetTablesInit
    /\ RunIdle
    /\ file \in ScanFiles
    /\ fpos = 0
    /\ braces = 0
    /\ brackets = 0
    /\ instring = FALSE
    /\ content = <<>>
    /\ top = <<>>
    /\ lst = <<>>
    /\ entry = <<>>
    /\ called = ""
    /\ ret = FALSE
    /\ calls = <<>>
    /\ other = <<>>

\* one readc of whatever code runs before the call
ScanReadC ==
    /\ pc = "reading"
    /\ ~AtEOF(Scanner)
    /\ SetScanner(ReadC(Scanner))
    /\ UNCHANGED << pc, tabVars, inVars, travVars, emitVars, file, content,
                    top, lst, entry, called, ret, calls, other >>

\* what a call leaves behind: r is [S, ret, hang]
Returned(r, fn) ==
    /\ pc' = IF r.hang THEN "hang" ELSE "returned"
    /\ SetScanner(r.S)
    /\ entry' = Scanner
    /\ called' = fn
    /\ ret' = r.ret
    /\ UNCHANGED << tabVars, inVars, travVars, emitVars, file, content, top,
                    lst, calls, other >>

\* scan_field, called as read_graph calls it: outside any string, with the
\* key of the controllers and the handler that extracts the string
CallScanField ==
    /\ pc = "reading"
    /\ ~instring
    /\ Returned(ScanField(Scanner, ControllerKeys), "scan_field")

\* begin_field, called outside any string
CallBeginField ==
    /\ pc = "reading"
    /\ ~instring
    /\ Returned(BeginField(Scanner), "begin_field")

\* extract_string(file, ctrl), called outside any string: ctrl is the
\* std::string of the caller the characters are written to
CallExtractString ==
    /\ pc = "reading"
    /\ ~instring
    /\ \E r \in { ExtractString(Scanner) } :
           /\ pc' = IF r.hang THEN "hang" ELSE "extracted"
           /\ SetScanner(r.S)
           /\ lst' = [ ctrl |-> r.out ]
    /\ entry' = Scanner
    /\ called' = "extract_string"
    /\ UNCHANGED << tabVars, inVars, travVars, emitVars, file, content, top,
                    ret, calls, other >>

NextScan ==
    \/ ScanReadC
    \/ CallScanField
    \/ CallBeginField
    \/ CallExtractString

SpecScan == InitScan /\ [][NextScan]_vars

\* ------------------------------------------------ scan_field and its handler

\* length of the text after the opening brace
MaxMatchLen == 6

\* two keys over the alphabet, one a prefix of the other up to its last
\* character
MatchKeys == << Chars("\"g\""), Chars("\"gg\"") >>

MatchFiles ==
    { <<"{">> \o body
        : body \in UNION { [ 1..n -> ScanAlphabet ] : n \in 0..MaxMatchLen } }

InitMatch ==
    /\ pc = "match"
    /\ SetTablesInit
    /\ RunIdle
    /\ file \in MatchFiles
    /\ fpos = 0
    /\ braces = 0
    /\ brackets = 0
    /\ instring = FALSE
    /\ content = <<>>
    /\ top = <<>>
    /\ lst = <<>>
    /\ entry = <<>>
    /\ called = ""
    /\ ret = FALSE
    /\ calls = <<>>
    /\ other = <<>>

matchRest == << tabVars, inVars, travVars, emitVars, file, content, lst,
                called, other >>

\* scan_field, first loop
MatchEnter ==
    /\ pc = "match"
    /\ \E r \in { EnterField(Scanner, Levels(Scanner)) } :
           /\ pc' = IF r.hang THEN "hang"
                    ELSE IF r.ret THEN "match_scan" ELSE "match_done"
           /\ SetScanner(r.S)
           /\ ret' = r.ret
           /\ top' = [ L |-> Levels(Scanner),
                       kpos |-> [ i \in 1..Len(MatchKeys) |-> 0 ],
                       i |-> Len(MatchKeys) + 1, c |-> "" ]
    /\ entry' = Scanner
    /\ UNCHANGED << calls, matchRest >>

\* scan_field, second loop, up to the next call of the handler or to the
\* return
MatchScan ==
    /\ pc = "match_scan"
    /\ \E r \in { ScanToKey([Scanner EXCEPT !.c = top.c], top.L, MatchKeys,
                            top.kpos, top.i) } :
           /\ pc' = IF r.hang THEN "hang"
                    ELSE IF r.match = 0 THEN "match_done"
                    ELSE "match_handler"
           /\ SetScanner(r.S)
           /\ top' = [top EXCEPT !.kpos = r.kpos, !.i = r.match + 1,
                                 !.c = r.S.c]
           /\ calls' = IF r.match = 0
                         THEN calls
                         ELSE Append(calls, [ i |-> r.match, at |-> r.S.pos,
                                              upto |-> r.S.pos ])
    /\ UNCHANGED << ret, entry, matchRest >>

\* action(i): the handler extracts the string that follows
MatchHandler ==
    /\ pc = "match_handler"
    /\ \E r \in { ExtractString(Scanner) } :
           /\ pc' = IF r.hang THEN "hang" ELSE "match_scan"
           /\ SetScanner(r.S)
           /\ calls' = [calls EXCEPT ![Len(calls)].upto = r.S.pos]
    /\ UNCHANGED << ret, top, entry, matchRest >>

NextMatch ==
    \/ MatchEnter
    \/ MatchScan
    \/ MatchHandler

SpecMatch == InitMatch /\ [][NextMatch]_vars

\* ------------------------------------------------ read_graph on a document

\* rows and controllers of the documents
MaxDocRows == 2
MaxDocControllers == 1

DocEdgeIds == { <<"e">> }
DocVertexIds == { <<"a">>, <<"b">> }
DocControllerIds == { <<"a">>, <<"e">> }

\* a field of a row is <<k, id>>: key RowKeys[k] with the string id.  A row
\* is its fields as written: any order of the three keys, or of two of them.
RowValues(k) == IF k = 1 THEN DocEdgeIds ELSE DocVertexIds

DocRows ==
    { r \in UNION { [ 1..n -> (1..3) \X (DocEdgeIds \cup DocVertexIds) ]
                    : n \in 2..3 } :
        /\ \A i \in 1..Len(r) : r[i][2] \in RowValues(r[i][1])
        /\ \A i, j \in 1..Len(r) : r[i][1] = r[j][1] => i = j }

Documents ==
    [ rows : UNION { [ 1..n -> DocRows ] : n \in 0..MaxDocRows },
      ctrls : UNION { [ 1..n -> DocControllerIds ]
                      : n \in 0..MaxDocControllers },
      order : { <<1, 2>>, <<2, 1>> } ]

RECURSIVE Join(_, _)
\* the items of a list or the members of an object, separated by commas
Join(items, k) ==
    IF k > Len(items)
      THEN <<>>
      ELSE (IF k > 1 THEN <<",">> ELSE <<>>) \o items[k]
           \o Join(items, k + 1)

Quoted(id) == <<"\"">> \o id \o <<"\"">>
Member(key, value) == key \o <<":">> \o value
Object(members) == <<"{">> \o Join(members, 1) \o <<"}">>
List(items) == <<"[">> \o Join(items, 1) \o <<"]">>

\* the text of a document: an object with the keys "rows" and "controllers"
\* in the order doc.order
Format(doc) ==
    LET row(r) == Object([ i \in 1..Len(r) |->
                             Member(RowKeys[r[i][1]], Quoted(r[i][2])) ])
        ctrl(id) == Object(<< Member(ControllerKeys[1], Quoted(id)) >>)
        value(k) ==
            IF k = 1
              THEN List([ i \in 1..Len(doc.rows) |-> row(doc.rows[i]) ])
              ELSE List([ i \in 1..Len(doc.ctrls) |-> ctrl(doc.ctrls[i]) ])
    IN  Object([ i \in 1..2 |->
                   Member(TopKeys[doc.order[i]], value(doc.order[i])) ])

\* fopen: the scanner at the start of the text of some document
InitParse ==
    /\ pc = "top"
    /\ SetTablesInit
    /\ RunIdle
    /\ content \in Documents
    /\ file = Format(content)
    /\ fpos = 0
    /\ braces = 0
    /\ brackets = 0
    /\ instring = FALSE
    /\ top = <<>>
    /\ lst = <<>>
    /\ entry = <<>>
    /\ called = ""
    /\ ret = FALSE
    /\ calls = <<>>
    /\ other = <<>>

restVars == << nstart, travVars, emitVars, file, content, entry, called,
              calls, other >>

\* the outer scan_field, first loop
TopEnter ==
    /\ pc = "top"
    /\ \E r \in { EnterField(Scanner, Levels(Scanner)) } :
           /\ pc' = IF r.hang THEN "hang"
                    ELSE IF r.ret THEN "top_scan" ELSE "parsed"
           /\ SetScanner(r.S)
           /\ top' = [ L |-> Levels(Scanner),
                       kpos |-> [ i \in 1..Len(TopKeys) |-> 0 ],
                       i |-> Len(TopKeys) + 1, c |-> "" ]
    /\ UNCHANGED << tabVars, nrows, lst, ret, restVars >>

\* the outer scan_field, second loop, up to the next handler or to its end
TopScan ==
    /\ pc = "top_scan"
    /\ \E r \in { ScanToKey([Scanner EXCEPT !.c = top.c], top.L, TopKeys,
                          top.kpos, top.i) } :
           /\ pc' = IF r.hang THEN "hang"
                    ELSE CASE r.match = 1 -> "rows_enter"
                           [] r.match = 2 -> "controllers_enter"
                           [] OTHER -> "parsed"
           /\ SetScanner(r.S)
           /\ top' = [top EXCEPT !.kpos = r.kpos, !.i = r.match + 1,
                                 !.c = r.S.c]
    /\ UNCHANGED << tabVars, nrows, lst, ret, restVars >>

\* scan_list, first loop; fn is "rows" or "controllers"
ListEnter(fn) ==
    /\ pc = fn \o "_enter"
    /\ \E r \in { EnterList(Scanner, Levels(Scanner)) } :
           /\ pc' = IF r.hang THEN "hang"
                    ELSE IF r.ret THEN fn ELSE fn \o "_end"
           /\ SetScanner(r.S)
           /\ lst' = Levels(Scanner)
    /\ UNCHANGED << tabVars, nrows, top, ret, restVars >>

\* scan_list, second loop: whether the handler is called once more
InList(fn) ==
    IF pc = fn THEN lst.brackets < brackets ELSE FALSE

\* scan_list has returned
ListEnded(fn) ==
    IF pc = fn THEN ~(lst.brackets < brackets) ELSE pc = fn \o "_end"

\* the handler of the "rows" list: scan_field on a row, then the row
RowElem ==
    /\ InList("rows")
    /\ \E r \in { ScanField(Scanner, RowKeys) } :
           /\ pc' = IF r.hang THEN "hang" ELSE pc
           /\ SetScanner(r.S)
           /\ ret' = r.ret
           /\ IF r.ret /\ ~r.hang
                THEN /\ SetTables(RowInsert(Tables, r.vals[1], r.vals[2],
                                            r.vals[3]))
                     /\ nrows' = nrows + 1
                ELSE UNCHANGED << tabVars, nrows >>
    /\ UNCHANGED << top, lst, restVars >>

\* the "rows" list is over: the dummy edge, back to the outer scan
RowsExit ==
    /\ ListEnded("rows")
    /\ pc' = "top_scan"
    /\ SetTables(AddDummyEdge(Tables))
    /\ UNCHANGED << nrows, scanVars, nstart, travVars, emitVars >>

\* the handler of the "controllers" list: scan_field on a controller, then
\* the designation
CtrlElem ==
    /\ InList("controllers")
    /\ \E r \in { ScanField(Scanner, ControllerKeys) } :
           /\ pc' = IF r.hang THEN "hang" ELSE pc
           /\ SetScanner(r.S)
           /\ ret' = r.ret
           /\ IF r.ret /\ ~r.hang
                THEN SetTables(ControllerInsert(Tables, r.vals[1]))
                ELSE UNCHANGED tabVars
    /\ UNCHANGED << nrows, top, lst, restVars >>

\* the "controllers" list is over: back to the outer scan
CtrlExit ==
    /\ ListEnded("controllers")
    /\ pc' = "top_scan"
    /\ UNCHANGED << tabVars, nrows, scanVars, nstart, travVars, emitVars >>

NextParse ==
    \/ TopEnter
    \/ TopScan
    \/ ListEnter("rows")
    \/ RowElem
    \/ RowsExit
    \/ ListEnter("controllers")
    \/ CtrlElem
    \/ CtrlExit

SpecParse == InitParse /\ [][NextParse]_vars

\* ---------------------------------------- the tables a document stands for

\* the string a row holds for key k as extract_string delivers it, or the
\* empty std::string when the row has no such key
RowId(r, k) ==
    IF \E i \in 1..Len(r) : r[i][1] = k
      THEN Terminate(r[CHOOSE i \in 1..Len(r) : r[i][1] = k][2])
      ELSE <<>>

Complete(r) == Len(r) = Len(RowKeys)

RECURSIVE SelectRows(_, _)
\* the complete rows of a list of rows, in their order
SelectRows(rows, k) ==
    IF k > Len(rows)
      THEN <<>>
      ELSE (IF Complete(rows[k]) THEN << rows[k] >> ELSE <<>>)
           \o SelectRows(rows, k + 1)

RECURSIVE RowsFrom(_, _, _)
\* the rows handler on the rows k.. in turn
RowsFrom(T, rows, k) ==
    IF k > Len(rows)
      THEN T
      ELSE RowsFrom(RowInsert(T, RowId(rows[k], 1), RowId(rows[k], 2),
                              RowId(rows[k], 3)), rows, k + 1)

RECURSIVE ControllersFrom(_, _, _)
\* the controllers handler on the controllers k.. in turn
ControllersFrom(T, ctrls, k) ==
    IF k > Len(ctrls)
      THEN T
      ELSE ControllersFrom(ControllerInsert(T, Terminate(ctrls[k])), ctrls,
                           k + 1)

\* the handler of top-level key k on tables T
TopHandler(T, rows, ctrls, k) ==
    IF k = 1
      THEN AddDummyEdge(RowsFrom(T, rows, 1))
      ELSE ControllersFrom(T, ctrls, 1)

\* the tables after the handlers ran in the order given
Built(rows, ctrls, order) ==
    TopHandler(TopHandler(InitTables, rows, ctrls, order[1]), rows, ctrls,
               order[2])

\* ------------------------------------ read_graph, order-dependent strategy

\* the documents in canonical order: "rows" before "controllers", every row
\* with viaGlobalId, fromGlobalId, toGlobalId in that order
Canonical(doc) ==
    /\ doc.order = <<1, 2>>
    /\ \A i \in 1..Len(doc.rows) :
          /\ Complete(doc.rows[i])
          /\ \A k \in 1..Len(RowKeys) : doc.rows[i][k][1] = k

\* the file is read by the order-independent build first
InitBoth ==
    /\ InitParse
    /\ Canonical(content)

fastRest == << nrows, nstart, travVars, emitVars, file, content, top, lst,
               entry, called, ret, calls >>

\* the order-dependent build of the same file: the tables of the first build
\* are kept aside, the tables start as read_graph starts them, the file is
\* opened again; begin_field, read_to_key "rows", begin_list
FastBegin ==
    /\ pc = "parsed"
    /\ other = <<>>
    /\ other' = Tables
    /\ SetTables(InitTables)
    /\ \E r \in { Then(Then(BeginField([ pos |-> 0, braces |-> 0,
                                         brackets |-> 0, instring |-> FALSE,
                                         c |-> "" ]),
                            LAMBDA S : ReadToKey(S, TopKeys[1])),
                       BeginList) } :
           /\ pc' = IF r.hang THEN "hang" ELSE "fast_rows"
           /\ SetScanner(r.S)
    /\ UNCHANGED fastRest

\* an element of the "rows" list: begin_field gave true, the body, end_field
FastRow ==
    /\ pc = "fast_rows"
    /\ \E b \in { BeginField(Scanner) } :
          /\ ~b.hang
          /\ b.ret
          /\ \E r \in { ReadElement(b.S, RowKeys) } :
                /\ pc' = IF r.hang THEN "hang" ELSE pc
                /\ SetScanner(r.S)
                /\ IF r.hang
                     THEN UNCHANGED tabVars
                     ELSE SetTables(RowInsert(Tables, r.vals[1], r.vals[2],
                                              r.vals[3]))
    /\ UNCHANGED << other, fastRest >>

\* begin_field gave false: the dummy edge, read_to_key "controllers",
\* begin_list
FastRowsEnd ==
    /\ pc = "fast_rows"
    /\ \E b \in { BeginField(Scanner) } :
          /\ IF b.hang THEN TRUE ELSE ~b.ret
          /\ \E r \in { Then(Then(b, LAMBDA S : ReadToKey(S, TopKeys[2])),
                             BeginList) } :
                /\ pc' = IF r.hang THEN "hang" ELSE "fast_controllers"
                /\ SetScanner(r.S)
                /\ IF b.hang
                     THEN UNCHANGED tabVars
                     ELSE SetTables(AddDummyEdge(Tables))
    /\ UNCHANGED << other, fastRest >>

\* an element of the "controllers" list
FastController ==
    /\ pc = "fast_controllers"
    /\ \E b \in { BeginField(Scanner) } :
          /\ ~b.hang
          /\ b.ret
          /\ \E r \in { ReadElement(b.S, ControllerKeys) } :
                /\ pc' = IF r.hang THEN "hang" ELSE pc
                /\ SetScanner(r.S)
                /\ IF r.hang
                     THEN UNCHANGED tabVars
                     ELSE SetTables(ControllerInsert(Tables, r.vals[1]))
    /\ UNCHANGED << other, fastRest >>

\* begin_field gave false: end_field, fclose
FastControllersEnd ==
    /\ pc = "fast_controllers"
    /\ \E b \in { BeginField(Scanner) } :
          /\ IF b.hang THEN TRUE ELSE ~b.ret
          /\ \E r \in { Then(b, EndField) } :
                /\ pc' = IF r.hang THEN "hang" ELSE "fast_parsed"
                /\ SetScanner(r.S)
    /\ UNCHANGED << tabVars, other, fastRest >>

NextBoth ==
    \/ TopEnter
    \/ TopScan
    \/ ListEnter("rows")
    \/ RowElem
    \/ RowsExit
    \/ ListEnter("controllers")
    \/ CtrlElem
    \/ CtrlExit
    \/ FastBegin
    \/ FastRow
    \/ FastRowsEnd
    \/ FastController
    \/ FastControllersEnd

SpecBoth == InitBoth /\ [][NextBoth]_vars

\* --------------------------------------------- traverse() run to its return

\* the inputs of the runs of traverse()
MaxLiveRows == 2
MaxLiveControllers == 2
MaxLiveStartingPoints == 1

LiveVertexIds == { <<"a">>, <<"b">> }
LiveEdgeIds == { <<"e">>, <<"a">> }
LiveDesignatedIds == { <<"a">>, <<"b">>, <<"e">> }

LiveRows ==
    { << <<1, e>>, <<2, u>>, <<3, v>> >> :
        e \in LiveEdgeIds, u \in LiveVertexIds, v \in LiveVertexIds }

RECURSIVE StartingPointsFrom(_, _, _)
\* the starting-points loop on the lines k.. in turn
StartingPointsFrom(T, lines, k) ==
    IF k > Len(lines)
      THEN T
      ELSE StartingPointsFrom(StartingPointInsert(T, lines[k]), lines, k + 1)

\* read_graph has returned: the tables it built from some rows, controllers
\* and starting points
InitLive ==
    /\ pc = "startingpoints"
    /\ \E rows \in UNION { [ 1..n -> LiveRows ] : n \in 0..MaxLiveRows },
          ctrls \in UNION { [ 1..n -> LiveDesignatedIds ]
                            : n \in 0..MaxLiveControllers },
          lines \in UNION { [ 1..n -> LiveDesignatedIds ]
                            : n \in 0..MaxLiveStartingPoints } :
          /\ \E T \in { StartingPointsFrom(Built(rows, ctrls, <<1, 2>>),
                                           lines, 1) } :
                /\ graph = T.graph
                /\ name = T.name
                /\ edgename = T.edgename
                /\ badedge = T.badedge
                /\ nodes = T.nodes
                /\ edges = T.edges
                /\ controllers = T.controllers
                /\ edgenodes = T.edgenodes
                /\ idx = T.idx
                /\ edgeidx = T.edgeidx
                /\ edgevtx = T.edgevtx
          /\ nrows = Len(rows)
          /\ nstart = Len(lines)
    /\ upstream = <<>>
    /\ dfs = <<>>
    /\ count = 0
    /\ acc = <<>>
    /\ stk = <<>>
    /\ child_reached = FALSE
    /\ ub = FALSE
    /\ find_upstream = <<>>
    /\ out = <<>>
    /\ ScanIdle

NextLive ==
    \/ BeginTraverse
    \/ TraverseStep
    \/ TraverseFinish

\* traverse() is sequential code: once called it keeps running
SpecLive ==
    /\ InitLive
    /\ [][NextLive]_vars
    /\ WF_vars(BeginTraverse)
    /\ WF_vars(TraverseStep)
    /\ WF_vars(TraverseFinish)

\* ------------------------------------------------ simple paths (reference)

\* the neighbours of v in the reduced graph: over the entries of graph[v]
\* whose edge is not flagged deleted
LiveNbrs(v) ==
    { At(graph, v)[k][1] : k \in { j \in 1..Len(At(graph, v)) :
                                     ~At(badedge, At(graph, v)[j][2]) } }

RECURSIVE PathVertices(_, _)
\* the vertices of all simple paths that start with the simple path whose
\* vertex set is seen and whose last vertex is cur, and that end in TAIL
PathVertices(cur, seen) ==
    IF cur = TAIL
      THEN seen
      ELSE UNION { PathVertices(n, seen \cup {n}) : n \in LiveNbrs(cur) \ seen }

\* the vertices that lie on a simple path from HEAD to TAIL
OnSimplePath == PathVertices(HEAD, {HEAD})

\* traverse() has returned
Traversed == pc \in { "emit", "emitting", "done" }

Vertices == 0..(nodes - 1)

RECURSIVE PathEdges(_, _, _)
\* the edge indices used by the simple paths from HEAD to TAIL that extend
\* the simple path with vertex set seen, last vertex cur and edges used
PathEdges(cur, seen, used) ==
    IF cur = TAIL
      THEN used
      ELSE UNION { PathEdges(At(graph, cur)[k][1],
                             seen \cup { At(graph, cur)[k][1] },
                             used \cup { At(graph, cur)[k][2] }) :
                   k \in { j \in 1..Len(At(graph, cur)) :
                             /\ ~At(badedge, At(graph, cur)[j][2])
                             /\ At(graph, cur)[j][1] \notin seen } }

\* the edges of the input (not the dummy edge) that lie on a simple path
\* from HEAD to TAIL
EdgesOnSimplePath == PathEdges(HEAD, {HEAD}, {}) \ { edges }

\* how often the emitter wrote w
Writes(w) == Cardinality({ k \in 1..Len(out) : out[k] = w })

\* how often (v, e) stands in graph[u]
Entries(u, v, e) ==
    Cardinality({ k \in 1..Len(At(graph, u)) : At(graph, u)[k] = <<v, e>> })

\* ------------------------------------------------------------------ claims

\* C1: upstream soundness.  After traverse() every vertex of the input
\* (index above TAIL) that is marked upstream lies on a simple path from HEAD
\* to TAIL over non-deleted edges; a controller that is reached from HEAD only
\* through TAIL is not marked.  (The claim covers the sentinels as well.)
C1_UpstreamSound ==
    Traversed =>
        \A v \in Vertices : (REAL(v) /\ At(upstream, v)) => v \in OnSimplePath

\* C2: upstream completeness.  After traverse() every vertex (HEAD, TAIL,
\* original or substitute) on a simple path from HEAD to TAIL over non-deleted
\* edges is marked upstream.
C2_UpstreamComplete ==
    Traversed => \A v \in OnSimplePath : At(upstream, v)

\* C2 as amended: after traverse() every vertex other than TAIL that lies on
\* a simple path from HEAD to TAIL over non-deleted edges is marked upstream.
C2_CompleteButTail ==
    Traversed => \A v \in OnSimplePath : v # TAIL => At(upstream, v)

\* C2 witness: traverse() has returned, a substitute vertex and three more
\* vertices of the input lie on simple paths, TAIL is left unmarked
C2_Witness ==
    /\ Traversed
    /\ ~At(upstream, TAIL)
    /\ \E e \in DOMAIN edgevtx : edgevtx[e][1] \in OnSimplePath
    /\ Cardinality(OnSimplePath) >= 6

\* C3: no duplicate vertex emission.  When the emitter has finished, the name
\* of each upstream vertex has been written exactly once, counting the write
\* at the push and the write at the pop.
C3_VertexWrittenOnce ==
    pc = "done" =>
        \A v \in Vertices : At(upstream, v) => Writes(WroteName(v)) = 1

\* C4: no duplicate edge emission.  When the emitter has finished, the name of
\* each upstream edge (an edge of the input on a simple path from HEAD to
\* TAIL), also one with several segments or parallel segments, has been
\* written exactly once.
C4_EdgeWrittenOnce ==
    pc = "done" =>
        \A e \in EdgesOnSimplePath : Writes(WroteEdge(e)) = 1

\* C5: undirectedness.  After every step of read_graph, for all vertices u, v
\* and every edge index e, graph[u] holds (v, e) as often as graph[v] holds
\* (u, e).
C5_Undirected ==
    \A u \in Vertices : \A k \in 1..Len(At(graph, u)) :
        LET v == At(graph, u)[k][1]
            e == At(graph, u)[k][2]
        IN  v \in Vertices /\ Entries(u, v, e) = Entries(v, u, e)

\* C5 witness: a row, an exploded edge and both sentinels wired
C5_Witness ==
    /\ pc = "startingpoints"
    /\ At(graph, HEAD) # <<>>
    /\ At(graph, TAIL) # <<>>
    /\ \E e \in DOMAIN edgevtx : Len(edgevtx[e]) = 2

\* the entries a designation of id appends to graph[sentinel] when the edge
\* of id is already exploded: the vertex wiring, then the substitutes
RewiredEntries(id) ==
    (IF id \in DOMAIN idx THEN << <<idx[id], edges>> >> ELSE <<>>)
    \o [ k \in 1..Len(edgevtx[edgeidx[id]]) |->
             <<edgevtx[edgeidx[id]][k], edges>> ]

\* one designation of id happens in this step, to sentinel s
DesignationStep(id, s) ==
    \/ /\ s = TAIL
       /\ pc = "controllers"
       /\ controllers' = controllers + 1
       /\ Tables' = ControllerInsert(Tables, id)
    \/ /\ s = HEAD
       /\ pc = "startingpoints"
       /\ nstart' = nstart + 1
       /\ Tables' = Designate(Tables, HEAD, id)

\* C6: reduction-1 idempotence.  The first designation of an edge identifier
\* creates one substitute per recorded segment and records them in edgevtx;
\* a later designation of the same identifier, as controller or as starting
\* point, creates no vertex, leaves edgevtx alone and appends to the
\* sentinel's adjacency exactly the recorded substitutes.
C6_ExplodedOnce ==
    [][ \A id \in { Terminate(i) : i \in DesignatedIds }, s \in { HEAD, TAIL } :
          (DesignationStep(id, s) /\ id \in DOMAIN edgeidx) =>
             IF At(badedge, edgeidx[id])
               THEN /\ nodes' = nodes
                    /\ name' = name
                    /\ edgevtx' = edgevtx
                    /\ badedge' = badedge
                    /\ At(graph', s) = At(graph, s) \o RewiredEntries(id)
               ELSE /\ edgeidx[id] \notin DOMAIN edgevtx
                    /\ At(badedge', edgeidx[id])
                    /\ nodes' = nodes + Len(At(edgenodes, edgeidx[id]))
                    /\ edgevtx'[edgeidx[id]] =
                         [ k \in 1..Len(At(edgenodes, edgeidx[id])) |->
                               nodes + k - 1 ]
      ]_vars

\* C6 witness: an edge with two segments, exploded, designated once as
\* controller and once as starting point
C6_Witness ==
    /\ pc = "startingpoints"
    /\ nstart = 1
    /\ \E e \in DOMAIN edgevtx :
          /\ Len(edgevtx[e]) = 2
          /\ \A k \in 1..2 :
                /\ Entries(TAIL, edgevtx[e][k], edges) = 1
                /\ Entries(HEAD, edgevtx[e][k], edges) = 1

\* C7: sentinel invariant.  HEAD is index 0 and TAIL index 1, both with the
\* empty name; no identifier maps to 0 or 1; every vertex allocated by a row
\* or by reduction 1 has an index of 2 or more; no entry touches a sentinel
\* while the rows are read, and every entry that touches one carries the
\* dummy edge.
C7_Sentinels ==
    /\ HEAD = 0 /\ TAIL = 1 /\ nodes >= 2
    /\ At(name, HEAD) = <<>> /\ At(name, TAIL) = <<>>
    /\ \A id \in DOMAIN idx : idx[id] >= 2 /\ idx[id] < nodes
    /\ \A e \in DOMAIN edgevtx :
          \A k \in 1..Len(edgevtx[e]) : edgevtx[e][k] >= 2
    /\ \A u \in Vertices : \A k \in 1..Len(At(graph, u)) :
          (u <= TAIL \/ At(graph, u)[k][1] <= TAIL) =>
              /\ pc # "rows"
              /\ At(graph, u)[k][2] = edges
              /\ At(edgename, edges) = <<>>

\* C7 witness: vertices from rows and from reduction 1, both sentinels wired
C7_Witness ==
    /\ pc = "done"
    /\ Len(At(graph, HEAD)) >= 2
    /\ Len(At(graph, TAIL)) >= 2
    /\ DOMAIN edgevtx # {}
    /\ Cardinality(DOMAIN idx) = 3

\* ---------------------------------------------------------------------- C10

RECURSIVE RoseFrom(_, _)
\* whether the object depth, counted from the call as an integer, rises above
\* its value at the call while the characters up to fpos are read
RoseFrom(S, d) ==
    IF S.pos >= fpos
      THEN FALSE
      ELSE LET S1 == ReadC(S)
               d1 == IF S.instring \/ S1.instring
                       THEN d
                       ELSE CASE S1.c = "{" -> d + 1
                              [] S1.c = "}" -> d - 1
                              [] OTHER -> d
           IN  d1 > 0 \/ RoseFrom(S1, d1)

EnteredField == RoseFrom(entry, 0)

\* C10: scan_field and begin_field return true if and only if the scan
\* entered a new field (the object depth rose above its value at the call);
\* when the enclosing list or the enclosing object closes first they return
\* false.
C10_FieldEntryResult ==
    pc = "returned" => (ret <=> EnteredField)

\* ----------------------------------------------------------------------- C8

Graph(T) == [ name |-> T.name, edgename |-> T.edgename,
              badedge |-> T.badedge, graph |-> T.graph ]

\* C9: the order-independent reader builds the same vertex table, edge table,
\* deleted flags and adjacency lists for the same rows and controllers,
\* whatever the order of the keys inside a row and whatever the order of the
\* top-level keys "rows" and "controllers".
C9_KeyOrderIndependent ==
    (pc = "parsed" /\ \A i \in 1..Len(content.rows) :
                         Complete(content.rows[i]))
        => Graph(Tables) = Graph(Built(content.rows, content.ctrls,
                                       <<1, 2>>))

\* ---------------------------------------------------------------------- C11

RECURSIVE ReachFrom(_)
\* the vertices joined to a vertex of S by a path of non-deleted edges
ReachFrom(S) ==
    UNION { IF N = S THEN S ELSE ReachFrom(N)
              : N \in { S \cup UNION { LiveNbrs(v) : v \in S } } }

Reachable == ReachFrom({HEAD})

\* traverse() has been entered
Traversing == pc \in { "traverse", "emit", "emitting", "done" }

\* v has a frame on the recursion stack
HasFrame(v) == \E k \in 1..Len(stk) : stk[k].v = v

\* C11: a vertex that no path of non-deleted edges joins to HEAD is never
\* discovered by traverse() (no frame, no discovery number, not on the
\* accumulator), keeps upstream = false, and the emitter never writes its
\* name[v], never pushes it.
C11_UnreachableExcluded ==
    Traversing =>
        \A v \in Vertices \ Reachable :
            /\ ~HasFrame(v)
            /\ At(dfs, v) = <<0, 0>>
            /\ \A k \in 1..Len(acc) : acc[k] # v
            /\ ~At(upstream, v)
            /\ Writes(WroteName(v)) = 0
            /\ \A k \in 1..Len(find_upstream) : find_upstream[k] # v

C11_Witness ==
    /\ pc = "done"
    /\ \E v, w \in Vertices :
          /\ REAL(v)
          /\ v \notin Reachable
          /\ REAL(w)
          /\ w \in Reachable
          /\ Writes(WroteName(w)) > 0

\* ---------------------------------------------------------------------- C12

\* the entries of graph[v] that join v to another upstream vertex through an
\* edge of the input that is not deleted
UpstreamEdgesAt(v) ==
    { At(graph, v)[k][2] :
        k \in { j \in 1..Len(At(graph, v)) :
                  /\ At(graph, v)[j][1] # v
                  /\ At(upstream, At(graph, v)[j][1])
                  /\ At(graph, v)[j][2] # edges
                  /\ ~At(badedge, At(graph, v)[j][2]) } }

\* C12: when a starting point reaches a controller (TAIL is joined to HEAD),
\* the output holds the name of every vertex of the input or substitute
\* vertex that is marked upstream, and the name of every non-deleted edge
\* that joins two upstream vertices.
C12_EmissionComplete ==
    (pc = "done" /\ TAIL \in Reachable) =>
        \A v \in Vertices :
            At(upstream, v) =>
                /\ REAL(v) => Writes(WroteName(v)) >= 1
                /\ \A e \in UpstreamEdgesAt(v) : Writes(WroteEdge(e)) >= 1

\* a substitute vertex: one that Reduction 1 appended for a deleted edge
Substitute(v) ==
    \E e \in DOMAIN edgevtx :
        \E k \in 1..Len(edgevtx[e]) : edgevtx[e][k] = v

C12_Witness ==
    /\ pc = "done"
    /\ TAIL \in Reachable
    /\ \E v \in Vertices :
          /\ Substitute(v)
          /\ At(upstream, v)
          /\ Writes(WroteName(v)) >= 1
    /\ \E v \in Vertices :
          /\ REAL(v)
          /\ ~Substitute(v)
          /\ At(upstream, v)
          /\ UpstreamEdgesAt(v) # {}

\* ---------------------------------------------------------------------- C13

\* C13: when no line of the starting-points file matched a vertex or an edge
\* identifier, so that HEAD has no adjacency entry, traverse() discovers HEAD
\* only and the emitter writes nothing but name[HEAD], the empty string.
C13_EmptyWithoutStart ==
    (Traversed /\ At(graph, HEAD) = <<>>) =>
        /\ At(name, HEAD) = <<>>
        /\ \A v \in Vertices \ {HEAD} :
              At(dfs, v) = <<0, 0>> /\ ~At(upstream, v)
        /\ count = 2
        /\ pc = "done" => out = << WroteName(HEAD) >>

C13_Witness ==
    /\ pc = "done"
    /\ nstart = 1
    /\ At(graph, HEAD) = <<>>
    /\ At(graph, TAIL) # <<>>
    /\ nodes > 3

\* ---------------------------------------------------------------------- C14

\* the double quotes among the first k characters of the stream
Quotes(k) == Cardinality({ j \in 1..k : file[j] = "\"" })

\* how often c stands outside the strings among the characters read so far
Outside(c) ==
    Cardinality({ j \in 1..fpos : file[j] = c /\ Quotes(j) % 2 = 0 })

\* C14 (as stated): after any prefix fed to readc, braces and brackets equal
\* opens minus closes counted over the characters outside strings, and a
\* double quote toggles instring.
C14_CountersExact ==
    /\ instring = (Quotes(fpos) % 2 = 1)
    /\ braces = Outside("{") - Outside("}")
    /\ brackets = Outside("[") - Outside("]")

\* C14 (amended): the counters are unsigned, so they equal opens minus closes
\* modulo the range of uint_fast32_t: a closer read at level 0 wraps the
\* counter to the largest value instead of making it -1.
C14_CountersModular ==
    /\ instring = (Quotes(fpos) % 2 = 1)
    /\ braces = Uintf(Outside("{") - Outside("}"))
    /\ brackets = Uintf(Outside("[") - Outside("]"))

C14_Witness ==
    /\ pc = "reading"
    /\ file = << "}", "\"", "{", "\"" >>
    /\ fpos = 4
    /\ braces = UintfModulus - 1
    /\ ~instring

\* ---------------------------------------------------------------------- C15

RECURSIVE StateAt(_)
\* the scanner after the first j characters of the stream were read
StateAt(j) ==
    IF j = 0
      THEN [ pos |-> 0, braces |-> 0, brackets |-> 0, instring |-> FALSE,
             c |-> "" ]
      ELSE ReadC(StateAt(j - 1))

\* character j was read by a handler
HandlerRead(j) ==
    \E k \in 1..Len(calls) : calls[k].at < j /\ j <= calls[k].upto

\* character j was read by the second loop of the running scan_field at the
\* object depth of the scanned field and the list depth of the call
ScanRead(j) ==
    /\ entry.pos < j
    /\ StateAt(j - 1).braces > top.L.braces
    /\ j <= fpos
    /\ ~HandlerRead(j)
    /\ StateAt(j).braces = top.L.braces + 1
    /\ StateAt(j).brackets = top.L.brackets

\* the positions where a complete occurrence of key i ends, all of whose
\* characters were read that way
Occurrences(i) ==
    { j \in Len(MatchKeys[i])..fpos :
        \A t \in 1..Len(MatchKeys[i]) :
            /\ file[j - Len(MatchKeys[i]) + t] = MatchKeys[i][t]
            /\ ScanRead(j - Len(MatchKeys[i]) + t) }

\* the positions at which the handler was called with index i
CallsOf(i) == { k \in 1..Len(calls) : calls[k].i = i }

\* C15: the handler is called with index i exactly once for each complete
\* occurrence of keys[i] read at object depth entry+1 and list depth entry,
\* never for text inside a nested object or list, and what the handler reads
\* is matched against no key.
C15_OncePerOccurrence ==
    pc \in { "match_scan", "match_done" } =>
        \A i \in 1..Len(MatchKeys) :
            /\ { calls[k].at : k \in CallsOf(i) } = Occurrences(i)
            /\ Cardinality(CallsOf(i)) = Cardinality(Occurrences(i))

\* ---------------------------------------------------------------------- C16

CountIn(s, p) == Cardinality({ k \in 1..Len(s) : s[k] = p })

\* s is t with something appended
Extends(t, s) == Len(s) >= Len(t) /\ SubSeq(s, 1, Len(t)) = t

\* 1 if the condition holds, else 0
Indicator(b) == IF b THEN 1 ELSE 0

\* C17: the first designation of an edge identifier with k recorded segments
\* (u_j, v_j), to TAIL as controller or to HEAD as starting point, appends
\* exactly k vertices named with that identifier, each with mirrored
\* adjacency entries to the sentinel, to u_j and to v_j, all tagged with the
\* dummy edge index; the deleted flag of the edge becomes true, and no
\* vertex, edge record or adjacency entry that existed is removed.
C17_ExplosionStructure ==
    [][ \A id \in { Terminate(i) : i \in DesignatedIds }, s \in { HEAD, TAIL } :
          ( /\ DesignationStep(id, s)
            /\ id \in DOMAIN edgeidx
            /\ ~At(badedge, edgeidx[id]) ) =>
             LET e == edgeidx[id]
                 segs == At(edgenodes, e)
                 k == Len(segs)
                 new(j) == nodes + j - 1
             IN  /\ nodes' = nodes + k
                 /\ Len(name') = nodes'
                 /\ Len(graph') = nodes'
                 /\ \A j \in 1..k :
                       /\ At(name', new(j)) = id
                       /\ At(graph', new(j)) =
                            << <<s, edges>>, <<segs[j][1], edges>>,
                               <<segs[j][2], edges>> >>
                       /\ CountIn(At(graph', s), <<new(j), edges>>) = 1
                       /\ \A w \in Vertices \ {s} :
                             CountIn(At(graph', w), <<new(j), edges>>) =
                                Indicator(segs[j][1] = w)
                                + Indicator(segs[j][2] = w)
                 /\ At(badedge', e)
                 /\ \A f \in 0..(Len(badedge) - 1) :
                       f # e => At(badedge', f) = At(badedge, f)
                 /\ Len(badedge') = Len(badedge)
                 /\ Extends(name, name')
                 /\ edgename' = edgename
                 /\ edgenodes' = edgenodes
                 /\ edges' = edges
                 /\ \A w \in Vertices :
                       /\ Extends(At(graph, w), At(graph', w))
                       /\ Len(At(graph', w)) = Len(At(graph, w))
                            + Indicator(w = s /\ id \in DOMAIN idx)
                            + Indicator(id \in DOMAIN idx /\ idx[id] = w)
                            + Cardinality({ j \in 1..k : w = s })
                            + Cardinality({ j \in 1..k : segs[j][1] = w })
                            + Cardinality({ j \in 1..k : segs[j][2] = w })
      ]_vars

\* an edge with two segments exploded into two substitutes, one of them for
\* a segment between two different vertices
C17_Witness ==
    \E e \in DOMAIN edgevtx :
        /\ At(badedge, e)
        /\ Len(At(edgenodes, e)) = 2
        /\ Len(edgevtx[e]) = 2
        /\ \E j \in 1..2 :
              /\ At(edgenodes, e)[j][1] # At(edgenodes, e)[j][2]
              /\ Len(At(graph, edgevtx[e][j])) = 3

\* ---------------------------------------------------------------------- C18

\* the vertices that have a discovery number
Discovered == { v \in Vertices : At(dfs, v)[1] > 0 }

\* the vertices that have a frame on the recursion stack
Framed == { stk[k].v : k \in 1..Len(stk) }

\* single discovery, while traverse() runs and when it has returned: the
\* frames created so far (count - 1) are as many as the vertices that have a
\* frame or a discovery number, no vertex has two frames or stands twice on
\* the accumulator, the discovery numbers are >= 1 and pairwise different;
\* at the return the stack is empty and the discovered vertices are exactly
\* those reachable from HEAD over non-deleted edges
SingleDiscovery ==
    pc \in { "traverse", "emit" } =>
        /\ count - 1 = Cardinality(Discovered \cup Framed)
        /\ \A k, l \in 1..Len(stk) : stk[k].v = stk[l].v => k = l
        /\ \A k, l \in 1..Len(acc) : acc[k] = acc[l] => k = l
        /\ \A k \in 1..Len(acc) : acc[k] \in Discovered
        /\ \A v, w \in Discovered :
              /\ At(dfs, v)[1] >= 1
              /\ At(dfs, v)[1] < count
              /\ At(dfs, v)[1] = At(dfs, w)[1] => v = w
        /\ Discovered \cup Framed \subseteq Reachable
        /\ pc = "emit" => (stk = <<>> /\ Discovered = Reachable)

\* C18: on every constructed graph traverse() terminates with an empty frame
\* stack, and every vertex reachable from HEAD over non-deleted edges is
\* discovered exactly once, distinct vertices getting distinct discovery
\* numbers >= 1.
C18_TerminatesSingleDiscovery ==
    /\ []SingleDiscovery
    /\ (pc = "traverse") ~> (pc = "emit" /\ stk = <<>>)

C18_Witness ==
    /\ pc = "emit"
    /\ Cardinality(Discovered) >= 5
    /\ \E e \in 1..Len(badedge) : badedge[e]

\* ---------------------------------------------------------------------- C19

\* entry i (counted from 0) of graph[v], and whether its edge is not deleted
EntryAt(v, i) == At(At(graph, v), i)
LiveAt(v, i) == ~At(badedge, EntryAt(v, i)[2])

\* the first entry of graph[v] from index start on that is not deleted and
\* leads to a vertex without discovery number in d; graph[v].size() if none
StopIndex(v, start, d) ==
    LET open == { i \in start..(Len(At(graph, v)) - 1) :
                    LiveAt(v, i) /\ At(d, EntryAt(v, i)[1])[1] = 0 }
    IN  IF open = {}
          THEN Len(At(graph, v))
          ELSE CHOOSE i \in open : \A j \in open : i <= j

\* the least of b and the numbers in S
MinOver(b, S) ==
    IF \E x \in S : x < b
      THEN CHOOSE x \in S : x < b /\ \A y \in S : x <= y
      ELSE b

\* C19: the entries whose edge is flagged deleted are inert in the DFS.  In
\* every iteration of traverse() the frame leaves the inner loop with the low
\* link and the reachability flag folded over the non-deleted entries it
\* passed and over nothing else, and the entry it recurses through is not
\* deleted, whatever the neighbours of the deleted entries are.
C19_DeletedInert ==
    [][ (pc = "traverse" /\ pc' = "traverse" /\ stk # <<>>) =>
          LET r == AfterReturn([Top(stk) EXCEPT
                                  !.reached = @ \/ child_reached])
              v == r.fm.v
              stop == StopIndex(v, r.fm.i, r.dfs)
              passed == { i \in (r.fm.i)..(stop - 1) : LiveAt(v, i) }
              best == MinOver(r.fm.best,
                              { At(r.dfs, EntryAt(v, i)[1])[2] : i \in passed })
              reached == r.fm.reached
                           \/ \E i \in passed : EntryAt(v, i)[1] = TAIL
          IN  IF stop = Len(At(graph, v))
                THEN /\ stk' = Pop(stk)
                     /\ At(dfs', v)[2] = best
                     /\ child_reached' = reached
                ELSE /\ LiveAt(v, stop)
                     /\ Len(stk') = Len(stk) + 1
                     /\ stk'[Len(stk)] =
                          Frame(v, stop, best,
                                reached \/ (EntryAt(v, stop)[1] = TAIL), TRUE)
                     /\ Top(stk') =
                          Frame(EntryAt(v, stop)[1], 0, count, FALSE, FALSE)
      ]_vars

\* a frame has passed a deleted entry whose neighbour is still undiscovered
C19_Witness ==
    /\ pc = "traverse"
    /\ \E k \in 1..Len(stk) :
          \E i \in 0..(stk[k].i - 1) :
              /\ stk[k].started
              /\ ~LiveAt(stk[k].v, i)
              /\ At(dfs, EntryAt(stk[k].v, i)[1])[1] = 0

\* ---------------------------------------------------------------------- C20

\* C20: no scanning primitive keeps reading once the stream is exhausted: a
\* call made on a stream that ends before the structure it scans closes
\* returns or fails, it is never left in a loop whose condition still holds
\* at the end of the stream.
C20_StopsAtEndOfStream == pc # "hang"

\* ---------------------------------------------------------------------- C21

\* the position of the first double quote after position k of the stream
\* (0 if there is none)
NextQuote(k) ==
    LET qs == { j \in (k + 1)..Len(file) : file[j] = "\"" }
    IN  IF qs = {} THEN 0 ELSE CHOOSE j \in qs : \A i \in qs : j <= i

\* how often c stands among the characters a+1 .. b of the stream
Between(c, a, b) == Cardinality({ j \in (a + 1)..b : file[j] = c })

\* C21: extract_string, called outside a string, hands back exactly the
\* characters between the next double quote and the one after it, unchanged
\* (a backslash is a character like any other), followed by one "\n"; it
\* returns just behind the closing quote with instring false, and braces and
\* brackets moved by the delimiters before the opening quote only.
C21_ExtractString ==
    (pc = "extracted") =>
        LET q1 == NextQuote(entry.pos)
            q2 == NextQuote(q1)
        IN  /\ q1 > 0
            /\ q2 > 0
            /\ fpos = q2
            /\ ~instring
            /\ Len(lst.ctrl) = q2 - q1
            /\ \A k \in 1..(q2 - q1 - 1) : lst.ctrl[k] = file[q1 + k]
            /\ lst.ctrl[q2 - q1] = "\n"
            /\ braces = Uintf(entry.braces + Between("{", entry.pos, q1)
                                - Between("}", entry.pos, q1))
            /\ brackets = Uintf(entry.brackets + Between("[", entry.pos, q1)
                                  - Between("]", entry.pos, q1))

\* a string holding a backslash, after a brace outside it
C21_Witness ==
    /\ pc = "extracted"
    /\ file = << "{", "\"", "\\", "\"" >>
    /\ entry.pos = 0
    /\ lst.ctrl = << "\\", "\n" >>
    /\ braces = 1

\* ---------------------------------------------------------------------- C22

\* id, with its terminator, is the name of no vertex and of no edge
Unmatched(id) ==
    /\ Terminate(id) \notin DOMAIN idx
    /\ Terminate(id) \notin DOMAIN edgeidx

\* C22: a controller identifier or a starting-point line that names neither
\* a vertex nor an edge leaves the graph, the names, the edge names, the
\* deletion flags, the segment lists, the explosion map, the lookup maps and
\* the vertex count as they were.
C22_UnmatchedNoOp ==
    [][ \A id \in DesignatedIds :
          (Unmatched(id) /\ (ReadController(id) \/ ReadStartingPoint(id)))
            => UNCHANGED << graph, name, edgename, badedge, edgenodes,
                            edgevtx, idx, edgeidx, nodes, edges >> ]_vars

\* a controller was read from a graph with an edge and nothing is wired to
\* TAIL or deleted: the identifier named nothing
C22_Witness ==
    /\ pc = "controllers"
    /\ controllers = 1
    /\ edges >= 1
    /\ At(graph, TAIL) = <<>>
    /\ \A e \in 0..(edges - 1) : ~At(badedge, e)

\* ---------------------------------------------------------------------- C23

\* C23: when no path of non-deleted entries joins HEAD to TAIL, traverse()
\* marks no vertex but HEAD upstream, and the emitter writes nothing but
\* name[HEAD], the empty string: no vertex identifier and no edge
\* identifier.
C23_NoControllerEmptyOutput ==
    (Traversed /\ TAIL \notin Reachable) =>
        /\ \A v \in Vertices \ {HEAD} : ~At(upstream, v)
        /\ At(name, HEAD) = <<>>
        /\ \A k \in 1..Len(out) : out[k] = WroteName(HEAD)

\* a starting point and a controller were wired, in parts of the graph that
\* are not joined
C23_Witness ==
    /\ pc = "done"
    /\ TAIL \notin Reachable
    /\ At(graph, HEAD) # <<>>
    /\ At(graph, TAIL) # <<>>
    /\ out = << WroteName(HEAD) >>

\* ---------------------------------------------------------------------- C24

\* C24: the emitter never writes edgename[e] for an adjacency entry whose
\* edge e is flagged deleted; the identifier of an exploded edge is written
\* only as the name of its substitute vertices.
C24_DeletedNotEmitted ==
    \A k \in 1..Len(out) :
        out[k].kind = "edgename" => ~At(badedge, out[k].of)

\* ---------------------------------------------------------------------- C25

\* the position of v on the accumulator (0 if it is not there)
AccIndex(v) ==
    IF \E k \in 1..Len(acc) : acc[k] = v
      THEN CHOOSE k \in 1..Len(acc) : acc[k] = v
      ELSE 0

\* no empty accumulator is read, a vertex stands on the accumulator at most
\* once and only when discovered, HEAD alone is left when the frame stack
\* empties, and nothing is left when traverse() has returned
AccumulatorState ==
    /\ ~ub
    /\ pc # "undefined"
    /\ pc = "traverse" =>
          /\ \A j, k \in 1..Len(acc) : acc[j] = acc[k] => j = k
          /\ \A k \in 1..Len(acc) : At(dfs, acc[k])[1] > 0
          /\ stk = <<>> => acc = << HEAD >>
    /\ Traversed => acc = <<>>

\* one iteration of traverse(): in the articulation branch the returned
\* child u stands on the accumulator, which is popped down to and including
\* u; otherwise nothing is popped; a vertex is pushed when it gets its
\* discovery number and at no other time
AccumulatorStep ==
    (pc = "traverse" /\ pc' = "traverse" /\ stk # <<>>) =>
        LET fm == Top(stk)
            u == EntryAt(fm.v, fm.i)[1]
        IN  IF fm.started
              THEN IF At(dfs, u)[2] >= At(dfs, fm.v)[1]
                     THEN /\ AccIndex(u) > 0
                          /\ acc' = SubSeq(acc, 1, AccIndex(u) - 1)
                     ELSE acc' = acc
              ELSE /\ At(dfs, fm.v)[1] = 0
                   /\ At(dfs', fm.v)[1] > 0
                   /\ acc' = Append(acc, fm.v)

\* C25: whenever traverse() takes the articulation branch for a returned
\* child u, u is on the accumulator, so the pop loop never reads an empty
\* stack; every discovered vertex is pushed once and popped once; and the
\* only entry left when the frame stack empties is HEAD.
C25_AccumulatorDiscipline == []AccumulatorState /\ [][AccumulatorStep]_vars

\* the articulation branch is about to be taken for a child that lies below
\* the top of the accumulator: the pop loop will pop more than one vertex
C25_Witness ==
    /\ pc = "traverse"
    /\ stk # <<>>
    /\ Top(stk).started
    /\ At(dfs, EntryAt(Top(stk).v, Top(stk).i)[1])[2] >= At(dfs, Top(stk).v)[1]
    /\ AccIndex(EntryAt(Top(stk).v, Top(stk).i)[1]) > 0
    /\ AccIndex(EntryAt(Top(stk).v, Top(stk).i)[1]) < Len(acc)

=============================================================================
